---- MODULE Spec2Model ----
(***************************************************************************)
(* Model of scripts/sync-blog.ts: the blog synchronisation pipeline        *)
(* (syncBlog, parseMarkdownFile, calculateReadingTime, generatePostId) and *)
(* the accessors of the artifact it generates (blog-data.ts).              *)
(*                                                                         *)
(* A JavaScript string is a sequence of UTF-16 code units, written here as *)
(* a sequence of integers, so that the character classes of the regular    *)
(* expressions are the numeric ranges the source writes.                   *)
(***************************************************************************)
EXTENDS Integers, Sequences, FiniteSets, TLC

VARIABLES
    fnIn, fnOut, fnPc,      \* one call of a pure function: argument, result, position
    dir,                    \* <cwd>/blog-posts: path -> file
    rootOk,                 \* whether <cwd>/blog-posts can be read during this run
    pc,                     \* position of syncBlog
    markdownFiles,          \* result of glob, in discovery order
    idx,                    \* index of the next file of the for loop
    posts,                  \* const posts: BlogPost[]
    log,                    \* console.warn / console.error lines of this run
    exitCode,               \* exit status of the process of this run
    artifact,               \* <cwd>/src/static/blog-data.ts as a reader sees it
    prior,                  \* history: the artifact and the listing of the previous run
    run,                    \* number of the current run (the clock of "Generated at")
    query                   \* last accessor call on the loaded artifact

fnVars == <<fnIn, fnOut, fnPc>>
syncVars == <<dir, rootOk, pc, markdownFiles, idx, posts, log, exitCode,
              artifact, prior, run, query>>
vars == <<fnIn, fnOut, fnPc, dir, rootOk, pc, markdownFiles, idx, posts, log,
          exitCode, artifact, prior, run, query>>

----------------------------------------------------------------------------
(* Sequences *)

Max(a, b) == IF a >= b THEN a ELSE b

Min(a, b) == IF a <= b THEN a ELSE b

\* s.substring(from - 1), 1-based here
Drop(s, n) == SubSeq(s, n + 1, Len(s))

Take(s, n) == SubSeq(s, 1, Min(n, Len(s)))

SetMin(S) == CHOOSE x \in S : \A y \in S : x <= y

\* index of the first position >= from whose element is in set, or 0
IndexIn(s, set, from) ==
    LET hits == {i \in from..Len(s) : s[i] \in set}
    IN  IF hits = {} THEN 0 ELSE SetMin(hits)

\* index of the first position >= from whose element is not in set, or 0
IndexNotIn(s, set, from) ==
    LET hits == {i \in from..Len(s) : s[i] \notin set}
    IN  IF hits = {} THEN 0 ELSE SetMin(hits)

\* all sequences over alphabet of length <= n
RECURSIVE SeqsUpTo(_, _)
SeqsUpTo(alphabet, n) ==
    IF n = 0 THEN {<<>>}
    ELSE LET shorter == SeqsUpTo(alphabet, n - 1)
         IN  shorter \cup {Append(s, c) : s \in {t \in shorter : Len(t) = n - 1},
                                          c \in alphabet}

RECURSIVE Flatten(_)
Flatten(ss) == IF ss = <<>> THEN <<>> ELSE Head(ss) \o Flatten(Tail(ss))

----------------------------------------------------------------------------
(* Characters, as UTF-16 code units *)

LowerAZ == 97..122          \* a-z

UpperAZ == 65..90           \* A-Z

Digits == 48..57            \* 0-9

CJK == 19968..40869         \* 一-龥

\* \s of a JavaScript regular expression
WhiteSpace == {9, 10, 11, 12, 13, 32, 160, 5760, 8232, 8233, 8239, 8287, 12288, 65279}
              \cup (8192..8202)

\* what . does not match
LineTerminators == {10, 13, 8232, 8233}

\* String.prototype.toLowerCase on one code unit (ASCII and Latin-1 letters)
ToLowerChar(c) ==
    IF c \in UpperAZ THEN c + 32
    ELSE IF c \in (192..222) \ {215} THEN c + 32
    ELSE c

toLowerCase(s) == [i \in 1..Len(s) |-> ToLowerChar(s[i])]

----------------------------------------------------------------------------
(* generatePostId, sync-blog.ts 65-71 *)

DotMd == <<46, 109, 100>>   \* '.md'

Slash == 47

\* the last position of c in s, or 0
RECURSIVE LastIndexOf(_, _, _)
LastIndexOf(s, c, from) ==
    IF from = 0 THEN 0
    ELSE IF s[from] = c THEN from
    ELSE LastIndexOf(s, c, from - 1)

\* trailing slashes removed (path.basename ignores them)
RECURSIVE StripTrailingSlashes(_)
StripTrailingSlashes(s) ==
    IF Len(s) > 0 /\ s[Len(s)] = Slash
    THEN StripTrailingSlashes(SubSeq(s, 1, Len(s) - 1))
    ELSE s

EndsWith(s, suffix) ==
    /\ Len(s) >= Len(suffix)
    /\ SubSeq(s, Len(s) - Len(suffix) + 1, Len(s)) = suffix

\* path.basename(p, ext): the last component, without ext unless the
\* component is ext itself; '' when p is ext
basename(p, ext) ==
    LET q == StripTrailingSlashes(p)
        base == Drop(q, LastIndexOf(q, Slash, Len(q)))
    IN  IF ext # <<>> /\ p = ext THEN <<>>
        ELSE IF ext # <<>> /\ base # ext /\ EndsWith(base, ext)
        THEN SubSeq(base, 1, Len(base) - Len(ext))
        ELSE base

\* .replace(/[^a-z0-9一-龥]/g, '-')
ReplaceNonIdChars(s) ==
    [i \in 1..Len(s) |->
        IF s[i] \in LowerAZ \/ s[i] \in Digits \/ s[i] \in CJK THEN s[i] ELSE 45]

\* .replace(/-+/g, '-')
RECURSIVE CollapseHyphens(_)
CollapseHyphens(s) ==
    IF Len(s) < 2 THEN s
    ELSE IF s[1] = 45 /\ s[2] = 45 THEN CollapseHyphens(Tail(s))
    ELSE <<s[1]>> \o CollapseHyphens(Tail(s))

\* .replace(/^-|-$/g, ''): one hyphen at the start, one at the end
TrimHyphens(s) ==
    LET t == IF Len(s) > 0 /\ s[1] = 45 THEN Tail(s) ELSE s
    IN  IF Len(t) > 0 /\ t[Len(t)] = 45 THEN SubSeq(t, 1, Len(t) - 1) ELSE t

generatePostId(filename) ==
    TrimHyphens(CollapseHyphens(ReplaceNonIdChars(toLowerCase(basename(filename, DotMd)))))

----------------------------------------------------------------------------
(* The markup removals of calculateReadingTime, sync-blog.ts 40-47 (and of *)
(* the excerpt, 101-108).  Each is a global replace: the text is scanned   *)
(* from the left, a match is replaced and the scan goes on after it.       *)

Backtick == 96

Fence == <<96, 96, 96>>

EmphasisMarks == {42, 95}       \* * and _

\* index of the first occurrence of sub in s at or after from, or 0
IndexOfSub(s, sub, from) ==
    LET hits == {i \in from..(Len(s) - Len(sub) + 1) :
                    SubSeq(s, i, i + Len(sub) - 1) = sub}
    IN  IF hits = {} THEN 0 ELSE SetMin(hits)

\* the end of the match of ```[\s\S]*?``` that starts at s[i], or 0
CodeBlockEnd(s, i) ==
    IF i + 2 > Len(s) \/ SubSeq(s, i, i + 2) # Fence THEN 0
    ELSE LET close == IndexOfSub(s, Fence, i + 3)
         IN  IF close = 0 THEN 0 ELSE close + 2

\* .replace(/```[\s\S]*?```/g, '')
RECURSIVE RemoveCodeBlocks(_)
RemoveCodeBlocks(s) ==
    LET starts == {i \in 1..Len(s) : s[i] = Backtick /\ CodeBlockEnd(s, i) > 0}
    IN  IF starts = {} THEN s
        ELSE LET i == SetMin(starts)
             IN  SubSeq(s, 1, i - 1) \o RemoveCodeBlocks(Drop(s, CodeBlockEnd(s, i)))

\* the end of the match of `[^`]*` that starts at s[i], or 0
InlineCodeEnd(s, i) == IF s[i] # Backtick THEN 0 ELSE IndexIn(s, {Backtick}, i + 1)

\* .replace(/`[^`]*`/g, '')
RECURSIVE RemoveInlineCode(_)
RemoveInlineCode(s) ==
    LET starts == {i \in 1..Len(s) : InlineCodeEnd(s, i) > 0}
    IN  IF starts = {} THEN s
        ELSE LET i == SetMin(starts)
             IN  SubSeq(s, 1, i - 1) \o RemoveInlineCode(Drop(s, InlineCodeEnd(s, i)))

\* the end of the match of \[.*?\]\(.*?\) that starts at s[from], or 0.
\* .*? stops at the first "](" and then at the first ")", and crosses no
\* line terminator.
LinkEnd(s, from) ==
    IF from > Len(s) \/ s[from] # 91 THEN 0
    ELSE LET mid == IndexOfSub(s, <<93, 40>>, from + 1)
             nl1 == IndexIn(s, LineTerminators, from + 1)
         IN  IF mid = 0 \/ (nl1 > 0 /\ nl1 < mid) THEN 0
             ELSE LET close == IndexIn(s, {41}, mid + 2)
                      nl2 == IndexIn(s, LineTerminators, mid + 2)
                  IN  IF close = 0 \/ (nl2 > 0 /\ nl2 < close) THEN 0 ELSE close

\* .replace(/!\[.*?\]\(.*?\)/g, '')
RECURSIVE RemoveImages(_)
RemoveImages(s) ==
    LET starts == {i \in 1..Len(s) : s[i] = 33 /\ LinkEnd(s, i + 1) > 0}
    IN  IF starts = {} THEN s
        ELSE LET i == SetMin(starts)
             IN  SubSeq(s, 1, i - 1) \o RemoveImages(Drop(s, LinkEnd(s, i + 1)))

\* .replace(/\[.*?\]\(.*?\)/g, '')
RECURSIVE RemoveLinks(_)
RemoveLinks(s) ==
    LET starts == {i \in 1..Len(s) : LinkEnd(s, i) > 0}
    IN  IF starts = {} THEN s
        ELSE LET i == SetMin(starts)
             IN  SubSeq(s, 1, i - 1) \o RemoveLinks(Drop(s, LinkEnd(s, i)))

\* the end of the match of #{1,6}\s that starts at s[i], or 0: the # from
\* s[i] on are at most six and white space follows them
HeadingEnd(s, i) ==
    IF s[i] # 35 THEN 0
    ELSE LET k == IndexNotIn(s, {35}, i)
         IN  IF k > 0 /\ k - i <= 6 /\ s[k] \in WhiteSpace THEN k ELSE 0

\* .replace(/#{1,6}\s/g, '')
RECURSIVE RemoveHeadings(_)
RemoveHeadings(s) ==
    LET starts == {i \in 1..Len(s) : HeadingEnd(s, i) > 0}
    IN  IF starts = {} THEN s
        ELSE LET i == SetMin(starts)
             IN  SubSeq(s, 1, i - 1) \o RemoveHeadings(Drop(s, HeadingEnd(s, i)))

\* the match of [*_]{1,2}(.*?)[*_]{1,2} at s[i] whose opening takes open
\* marks: <<first of $1, last of $1, end of match>>, or <<>>.  .*? stops at
\* the first mark and crosses no line terminator; the closing takes two
\* marks when two are there.
EmphasisMatchWith(s, i, open) ==
    LET k == IndexIn(s, EmphasisMarks \cup LineTerminators, i + open)
    IN  IF k = 0 \/ s[k] \notin EmphasisMarks THEN <<>>
        ELSE <<i + open, k - 1,
               IF k < Len(s) /\ s[k + 1] \in EmphasisMarks THEN k + 1 ELSE k>>

\* the opening takes two marks when it can and the match then succeeds,
\* else one
EmphasisMatch(s, i) ==
    IF s[i] \notin EmphasisMarks THEN <<>>
    ELSE LET two == IF i < Len(s) /\ s[i + 1] \in EmphasisMarks
                    THEN EmphasisMatchWith(s, i, 2) ELSE <<>>
         IN  IF two # <<>> THEN two ELSE EmphasisMatchWith(s, i, 1)

\* .replace(/[*_]{1,2}(.*?)[*_]{1,2}/g, '$1')
RECURSIVE CollapseEmphasis(_)
CollapseEmphasis(s) ==
    LET starts == {i \in 1..Len(s) : EmphasisMatch(s, i) # <<>>}
    IN  IF starts = {} THEN s
        ELSE LET i == SetMin(starts)
                 m == EmphasisMatch(s, i)
             IN  SubSeq(s, 1, i - 1) \o SubSeq(s, m[1], m[2])
                     \o CollapseEmphasis(Drop(s, m[3]))

\* .replace(/\n/g, ' ')
ReplaceNewlines(s) == [i \in 1..Len(s) |-> IF s[i] = 10 THEN 32 ELSE s[i]]

\* const plainText = content.replace(...)...  (lines 40-47, 101-108)
plainTextOf(content) ==
    ReplaceNewlines(CollapseEmphasis(RemoveHeadings(RemoveLinks(RemoveImages(
        RemoveInlineCode(RemoveCodeBlocks(content)))))))

----------------------------------------------------------------------------
(* calculateReadingTime, sync-blog.ts 38-58 *)

CjkPerMinute == 200

WordsPerMinute == 250

IsCJK(c) == c \in CJK

\* (plainText.match(/[一-龥]/g) || []).length
chineseChars(plainText) == Cardinality({i \in 1..Len(plainText) : IsCJK(plainText[i])})

\* plainText.replace(/[一-龥]/g, '').split(/\s+/).filter(word => word.length > 0).length:
\* the number of maximal runs of non-white-space once the CJK characters are gone
englishWords(plainText) ==
    LET t == SelectSeq(plainText, LAMBDA c : ~IsCJK(c))
    IN  Cardinality({i \in 1..Len(t) :
            t[i] \notin WhiteSpace /\ (i = 1 \/ t[i - 1] \in WhiteSpace)})

\* Math.ceil(n / d) for n >= 0, d > 0
CeilDiv(n, d) == (n + d - 1) \div d

\* mutant: no Math.max(1, ...)
readingTimeOfUnclamped(cjkCount, wordCount) ==
    CeilDiv(WordsPerMinute * cjkCount + CjkPerMinute * wordCount,
            CjkPerMinute * WordsPerMinute)

\* mutant: the quotients upside down, 200 / chineseChars + 250 / englishWords
readingTimeOfInverted(cjkCount, wordCount) ==
    Max(1, (IF cjkCount = 0 THEN 0 ELSE CeilDiv(CjkPerMinute, cjkCount))
           + (IF wordCount = 0 THEN 0 ELSE CeilDiv(WordsPerMinute, wordCount)))

\* mutant: each term rounded up on its own,
\* Math.ceil(chineseChars / 200) + Math.ceil(englishWords / 250)
readingTimeOfCeiledApart(cjkCount, wordCount) ==
    Max(1, CeilDiv(cjkCount, CjkPerMinute) + CeilDiv(wordCount, WordsPerMinute))

\* Math.max(1, Math.ceil(chineseChars / 200 + englishWords / 250)); the sum of
\* the two fractions is (250 * chineseChars + 200 * englishWords) / (200 * 250)
readingTimeOf(cjkCount, wordCount) ==
    Max(1, CeilDiv(WordsPerMinute * cjkCount + CjkPerMinute * wordCount,
                   CjkPerMinute * WordsPerMinute))

calculateReadingTime(content) ==
    LET plainText == plainTextOf(content)
    IN  readingTimeOf(chineseChars(plainText), englishWords(plainText))

----------------------------------------------------------------------------
(* parseMarkdownFile, sync-blog.ts 78-130                                  *)
(*                                                                         *)
(* A file is [readable, wellFormed, data, content]: whether fs.readFile    *)
(* resolves, whether matter() returns, and what it returns.  data holds    *)
(* the keys the metadata block has; title and date are strings, excerpt    *)
(* is text (code units), tags a sequence of strings, featured a boolean.   *)

ExcerptBudget == 150

Ellipsis == <<46, 46, 46>>      \* '...'

HasKey(data, k) == k \in DOMAIN data

\* mutant: frontMatter[k] === undefined, an empty value passes
FalsyAbsentOnly(data, k) == ~HasKey(data, k)

\* !frontMatter[k] for a string field: the key is absent or its value is ''
Falsy(data, k) == ~HasKey(data, k) \/ data[k] = ""

\* String.prototype.trim: white space and line terminators off both ends
RECURSIVE TrimStart(_)
TrimStart(s) ==
    IF s # <<>> /\ s[1] \in WhiteSpace THEN TrimStart(Tail(s)) ELSE s

RECURSIVE TrimEnd(_)
TrimEnd(s) ==
    IF s # <<>> /\ s[Len(s)] \in WhiteSpace
    THEN TrimEnd(SubSeq(s, 1, Len(s) - 1)) ELSE s

trim(s) == TrimEnd(TrimStart(s))

\* mutant: plainText.length >= 150, the marker on a text of exactly 150
excerptOfMarkerAtBudget(data, content) ==
    IF HasKey(data, "excerpt") /\ data.excerpt # <<>> THEN data.excerpt
    ELSE LET plainText == trim(plainTextOf(content))
         IN  Take(plainText, ExcerptBudget)
                 \o (IF Len(plainText) >= ExcerptBudget THEN Ellipsis ELSE <<>>)

\* lines 98-112
excerptOf(data, content) ==
    IF HasKey(data, "excerpt") /\ data.excerpt # <<>> THEN data.excerpt
    ELSE LET plainText == trim(plainTextOf(content))
         IN  Take(plainText, ExcerptBudget)
                 \o (IF Len(plainText) > ExcerptBudget THEN Ellipsis ELSE <<>>)

\* lines 114-123
BlogPost(filePath, data, content) ==
    [id          |-> generatePostId(basename(filePath, <<>>)),
     title       |-> data.title,
     date        |-> data.date,
     excerpt     |-> excerptOf(data, content),
     content     |-> content,
     tags        |-> IF HasKey(data, "tags") THEN data.tags ELSE <<>>,
     readingTime |-> calculateReadingTime(content),
     featured    |-> IF HasKey(data, "featured") THEN data.featured ELSE FALSE]

\* lines 85-89: the required fields
MissingRequired(data) == Falsy(data, "title") \/ Falsy(data, "date")

\* The call: [ok, post, diag], diag being the console.warn / console.error
\* lines it prints.  A rejected readFile and a throwing matter() both end in
\* the catch of line 126.
parseMarkdownFile(filePath, file) ==
    IF ~file.readable \/ ~file.wellFormed
    THEN [ok |-> FALSE, diag |-> <<"error">>]
    ELSE IF MissingRequired(file.data)
    THEN [ok |-> FALSE, diag |-> <<"warn">>]
    ELSE [ok |-> TRUE, diag |-> <<>>,
          post |-> BlogPost(filePath, file.data, file.content)]

----------------------------------------------------------------------------
(* The sort of syncBlog (line 240) and of sortPostsByDate (line 204)       *)

NaN == -1

\* new Date(date).getTime(), in days since 1970-01-01, on the date strings
\* of the model; NaN for a string that is no date
DateGetTime(date) ==
    CASE date = "2024-01-01" -> 19723
      [] date = "2024-02-01" -> 19754
      [] OTHER -> NaN

\* (a, b) => new Date(b.date).getTime() - new Date(a.date).getTime();
\* a NaN result is taken as +0 by Array.prototype.sort
CompareDesc(a, b) ==
    LET ta == DateGetTime(a.date)
        tb == DateGetTime(b.date)
    IN  IF ta = NaN \/ tb = NaN THEN 0 ELSE tb - ta

\* x put behind every element that does not sort after it
RECURSIVE InsertStable(_, _)
InsertStable(sorted, x) ==
    IF sorted = <<>> THEN <<x>>
    ELSE IF CompareDesc(Head(sorted), x) > 0 THEN <<x>> \o sorted
    ELSE <<Head(sorted)>> \o InsertStable(Tail(sorted), x)

RECURSIVE StableSortDesc(_)
StableSortDesc(ps) ==
    IF ps = <<>> THEN <<>>
    ELSE InsertStable(StableSortDesc(SubSeq(ps, 1, Len(ps) - 1)), ps[Len(ps)])

\* the comparator is a consistent one (ECMAScript 23.1.3.30.1) unless an
\* unparseable date, equal to everything, sits among two different dates
ConsistentComparator(ps) ==
    \A i, j, k \in 1..Len(ps) :
        (CompareDesc(ps[i], ps[j]) = 0 /\ CompareDesc(ps[j], ps[k]) = 0)
            => CompareDesc(ps[i], ps[k]) = 0

Orderings(n) == {f \in [1..n -> 1..n] : \A i, j \in 1..n : f[i] = f[j] => i = j}

\* mutant: line 240 left out
SortByDateResultsUnsorted(ps) == {ps}

\* what Array.prototype.sort may leave: the stable order, or with an
\* inconsistent comparator an implementation-defined order
SortByDateResults(ps) ==
    IF ConsistentComparator(ps) THEN {StableSortDesc(ps)}
    ELSE {[i \in 1..Len(ps) |-> ps[f[i]]] : f \in Orderings(Len(ps))}

----------------------------------------------------------------------------
(* The source directory of the model *)

MaxRuns == 2

\* 'Run 1.md', 'run_1.md', 'n/b.md', as glob lists them under blog-posts
Paths == {<<82, 117, 110, 32, 49, 46, 109, 100>>,
          <<114, 117, 110, 95, 49, 46, 109, 100>>,
          <<110, 47, 98, 46, 109, 100>>}

\* body texts: '', '中文 a', '# a\n**b** `c`'
Bodies == <<
    <<>>,
    <<20013, 25991, 32, 97>>,
    <<35, 32, 97, 10, 42, 42, 98, 42, 42, 32, 96, 99, 96>> >>

FileOf(data, content) ==
    [readable |-> TRUE, wellFormed |-> TRUE, data |-> data, content |-> content]

\* the files a path may hold: unreadable, malformed block, no date, two
\* dated posts, and a post whose date is no date
Files == {
    [readable |-> FALSE, wellFormed |-> TRUE, data |-> <<>>, content |-> <<>>],
    [readable |-> TRUE, wellFormed |-> FALSE, data |-> <<>>, content |-> <<>>],
    FileOf([title |-> "Draft"], Bodies[2]),
    FileOf([title |-> "Jan", date |-> "2024-01-01", tags |-> <<"run">>,
            featured |-> TRUE], Bodies[2]),
    FileOf([title |-> "Feb", date |-> "2024-02-01", tags |-> <<"run", "Run">>,
            excerpt |-> <<70, 101, 98>>], Bodies[3]),
    FileOf([title |-> "Soon", date |-> "soon"], Bodies[1]) }

\* every directory: some of the paths, each holding one of the files
Directories == UNION {[ps -> Files] : ps \in SUBSET Paths}

\* the orders in which glob may list the paths of d
Listings(d) ==
    LET ps == DOMAIN d
        n == Cardinality(ps)
    IN  {l \in [1..n -> ps] : \A i, j \in 1..n : l[i] = l[j] => i = j}

----------------------------------------------------------------------------
(* syncBlog, sync-blog.ts 212-266, and the artifact *)

NoArtifact == [kind |-> "absent", generatedAt |-> 0, blogPosts |-> <<>>]

\* the file once fs.writeFile has opened it with flag 'w' and not yet
\* written all of it
PartialArtifact == [kind |-> "partial", generatedAt |-> 0, blogPosts |-> <<>>]

\* generateBlogDataContent(posts), lines 137-207: the "Generated at" line and
\* the blogPosts literal (JSON of strings, numbers, booleans and arrays)
generateBlogDataContent(ps, now) ==
    [kind |-> "complete", generatedAt |-> now, blogPosts |-> ps]

NoQuery == [fn |-> "none"]

SyncInit ==
    /\ dir \in Directories
    /\ rootOk \in BOOLEAN
    /\ pc = "start"
    /\ markdownFiles = <<>>
    /\ idx = 1
    /\ posts = <<>>
    /\ log = <<>>
    /\ exitCode = 0
    /\ artifact = NoArtifact
    /\ prior = [artifact |-> NoArtifact, listing |-> <<>>]
    /\ run = 1
    /\ query = NoQuery

\* line 218, the root readable: glob resolves to the paths in some order
Glob ==
    /\ pc = "start"
    /\ rootOk
    /\ markdownFiles' \in Listings(dir)
    /\ pc' = "loop"
    /\ UNCHANGED <<fnVars, dir, rootOk, idx, posts, log, exitCode, artifact,
                   prior, run, query>>

\* line 218, the root missing or unreadable, and glob resolves: it matched
\* nothing.  syncBlog itself never looks whether the directory is there
\* (no pathExists before line 218), so the run goes on as for an empty one.
GlobNoRoot ==
    /\ pc = "start"
    /\ ~rootOk
    /\ markdownFiles' = <<>>
    /\ pc' = "loop"
    /\ UNCHANGED <<fnVars, dir, rootOk, idx, posts, log, exitCode, artifact,
                   prior, run, query>>

\* line 218, the root missing or unreadable, and glob rejects: catch,
\* process.exit(1) (lines 262-265)
GlobReject ==
    /\ pc = "start"
    /\ ~rootOk
    /\ pc' = "exited:glob"
    /\ exitCode' = 1
    /\ UNCHANGED <<fnVars, dir, rootOk, markdownFiles, idx, posts, log,
                   artifact, prior, run, query>>

\* mutant: no try/catch in parseMarkdownFile, a file that fails ends the run
ParseNextRethrow ==
    /\ pc = "loop"
    /\ idx <= Len(markdownFiles)
    /\ LET file == markdownFiles[idx]
           r == parseMarkdownFile(file, dir[file])
       IN  /\ posts' = IF r.ok THEN Append(posts, r.post) ELSE posts
           /\ log' = log \o [i \in 1..Len(r.diag) |->
                                [level |-> r.diag[i], file |-> file]]
           /\ pc' = IF r.ok THEN pc ELSE "exited:parse"
           /\ exitCode' = IF r.ok THEN exitCode ELSE 1
    /\ idx' = idx + 1
    /\ UNCHANGED <<fnVars, dir, rootOk, markdownFiles, artifact, prior, run, query>>

\* mutant: a file whose id another record has is warned about and skipped
ParseNextUniqueIds ==
    /\ pc = "loop"
    /\ idx <= Len(markdownFiles)
    /\ LET file == markdownFiles[idx]
           r == parseMarkdownFile(file, dir[file])
           taken == r.ok /\ \E i \in 1..Len(posts) : posts[i].id = r.post.id
       IN  /\ posts' = IF r.ok /\ ~taken THEN Append(posts, r.post) ELSE posts
           /\ log' = log \o [i \in 1..Len(r.diag) |->
                                [level |-> r.diag[i], file |-> file]]
                         \o (IF taken THEN <<[level |-> "warn", file |-> file]>>
                             ELSE <<>>)
    /\ idx' = idx + 1
    /\ UNCHANGED <<fnVars, dir, rootOk, pc, markdownFiles, exitCode, artifact,
                   prior, run, query>>

\* one turn of the for loop, lines 228-237
ParseNext ==
    /\ pc = "loop"
    /\ idx <= Len(markdownFiles)
    /\ LET file == markdownFiles[idx]
           r == parseMarkdownFile(file, dir[file])
       IN  /\ posts' = IF r.ok THEN Append(posts, r.post) ELSE posts
           /\ log' = log \o [i \in 1..Len(r.diag) |->
                                [level |-> r.diag[i], file |-> file]]
    /\ idx' = idx + 1
    /\ UNCHANGED <<fnVars, dir, rootOk, pc, markdownFiles, exitCode, artifact,
                   prior, run, query>>

\* lines 240-246: the sort, then fs.writeFile opens the output with flag 'w',
\* which empties the file that is there
WriteOpen ==
    /\ pc = "loop"
    /\ idx > Len(markdownFiles)
    /\ posts' \in SortByDateResults(posts)
    /\ artifact' = PartialArtifact
    /\ pc' = "writing"
    /\ UNCHANGED <<fnVars, dir, rootOk, markdownFiles, idx, log, exitCode,
                   prior, run, query>>

\* lines 240-246, the open failing (no src/static, no permission): the file
\* is untouched; catch, process.exit(1)
WriteOpenFail ==
    /\ pc = "loop"
    /\ idx > Len(markdownFiles)
    /\ posts' \in SortByDateResults(posts)
    /\ pc' = "exited:write"
    /\ exitCode' = 1
    /\ UNCHANGED <<fnVars, dir, rootOk, markdownFiles, idx, log, artifact,
                   prior, run, query>>

\* mutant: the records of the artifact that was there are kept and the new
\* ones added to them, a merge instead of a full replace
WriteFinishMerge ==
    /\ pc = "writing"
    /\ artifact' = generateBlogDataContent(prior.artifact.blogPosts \o posts, run)
    /\ pc' = "exited"
    /\ UNCHANGED <<fnVars, dir, rootOk, markdownFiles, idx, posts, log,
                   exitCode, prior, run, query>>

\* line 246 resolves; lines 248-260 print and syncBlog returns
WriteFinish ==
    /\ pc = "writing"
    /\ artifact' = generateBlogDataContent(posts, run)
    /\ pc' = "exited"
    /\ UNCHANGED <<fnVars, dir, rootOk, markdownFiles, idx, posts, log,
                   exitCode, prior, run, query>>

\* line 246 rejects after the open (disk full, I/O error): catch,
\* process.exit(1)
WriteFail ==
    /\ pc = "writing"
    /\ pc' = "exited:write"
    /\ exitCode' = 1
    /\ UNCHANGED <<fnVars, dir, rootOk, markdownFiles, idx, posts, log,
                   artifact, prior, run, query>>

Exited == pc \in {"exited", "exited:glob", "exited:write"}

\* the script is run again over the same directory
NextRun ==
    /\ Exited
    /\ run < MaxRuns
    /\ run' = run + 1
    /\ rootOk' \in BOOLEAN
    /\ prior' = [artifact |-> artifact, listing |-> markdownFiles]
    /\ pc' = "start"
    /\ markdownFiles' = <<>>
    /\ idx' = 1
    /\ posts' = <<>>
    /\ log' = <<>>
    /\ exitCode' = 0
    /\ query' = NoQuery
    /\ UNCHANGED <<fnVars, dir, artifact>>

----------------------------------------------------------------------------
(* The accessors of the artifact, sync-blog.ts 165-205, called by the      *)
(* pages on the blogPosts of a complete artifact                           *)

\* mutant: the first post whatever its id
getPostByIdFirst(blogPosts, id) ==
    IF blogPosts = <<>> THEN [found |-> FALSE]
    ELSE [found |-> TRUE, post |-> blogPosts[1]]

\* blogPosts.find(post => post.id === id): [found, post]
getPostById(blogPosts, id) ==
    LET hits == {i \in 1..Len(blogPosts) : blogPosts[i].id = id}
    IN  IF hits = {} THEN [found |-> FALSE]
        ELSE [found |-> TRUE,
              post |-> blogPosts[CHOOSE i \in hits : \A j \in hits : i <= j]]

\* the ids asked for: those of the paths, '' and 'zz'
QueryIds == {generatePostId(p) : p \in Paths} \cup {<<>>, <<122, 122>>}

CallGetPostById ==
    /\ Exited
    /\ artifact.kind = "complete"
    /\ \E id \in QueryIds :
          query' = [fn |-> "getPostById", arg |-> id,
                    result |-> getPostById(artifact.blogPosts, id)]
    /\ UNCHANGED <<fnVars, dir, rootOk, pc, markdownFiles, idx, posts, log,
                   exitCode, artifact, prior, run>>

Next ==
    \/ Glob
    \/ GlobNoRoot
    \/ GlobReject
    \/ ParseNext
    \/ WriteOpen
    \/ WriteOpenFail
    \/ WriteFinish
    \/ WriteFail
    \/ NextRun
    \/ CallGetPostById

FnIdle == fnIn = <<>> /\ fnOut = <<>> /\ fnPc = "idle"

Init == SyncInit /\ FnIdle

Spec == Init /\ [][Next]_vars

----------------------------------------------------------------------------
(* One call of generatePostId on a filename glob may list *)

MaxNameLen == 3

\* - . / 1 A _ a e-acute, a Han character below the range of line 68
\* (U+3400), and one inside it
NameAlphabet == {45, 46, 47, 49, 65, 95, 97, 233, 13312, 20013}

\* glob('**/*.md') lists names that end in .md and, hidden files being
\* left out, do not start with a dot
Filenames(n) ==
    {f \in {stem \o DotMd : stem \in SeqsUpTo(NameAlphabet, n)} :
        basename(f, <<>>)[1] # 46}

SyncIdle ==
    /\ dir = <<>>
    /\ rootOk = TRUE
    /\ pc = "idle"
    /\ markdownFiles = <<>>
    /\ idx = 1
    /\ posts = <<>>
    /\ log = <<>>
    /\ exitCode = 0
    /\ artifact = NoArtifact
    /\ prior = [artifact |-> NoArtifact, listing |-> <<>>]
    /\ run = 1
    /\ query = NoQuery

IdInit ==
    /\ fnIn \in Filenames(MaxNameLen)
    /\ fnOut = <<>>
    /\ fnPc = "call"
    /\ SyncIdle

CallGeneratePostId ==
    /\ fnPc = "call"
    /\ fnOut' = generatePostId(fnIn)
    /\ fnPc' = "return"
    /\ UNCHANGED <<fnIn, syncVars>>

IdNext == CallGeneratePostId

SpecId == IdInit /\ [][IdNext]_vars

----------------------------------------------------------------------------
(* One call of calculateReadingTime on a short body *)

MaxFrags == 4

\* the pieces a body is made of: a CJK character, a letter, a space, a
\* newline, ```, `, #, *, [, ](, ) and !
BodyFragments == {<<20013>>, <<97>>, <<32>>, <<10>>, Fence, <<96>>, <<35>>,
                  <<42>>, <<91>>, <<93, 40>>, <<41>>, <<33>>}

\* the bodies of at most n pieces
ShortBodies(n) == {Flatten(fs) : fs \in SeqsUpTo(BodyFragments, n)}

RtInit ==
    /\ fnIn \in ShortBodies(MaxFrags)
    /\ fnOut = 0
    /\ fnPc = "call"
    /\ SyncIdle

CallCalculateReadingTime ==
    /\ fnPc = "call"
    /\ fnOut' = calculateReadingTime(fnIn)
    /\ fnPc' = "return"
    /\ UNCHANGED <<fnIn, syncVars>>

RtNext == CallCalculateReadingTime

SpecRt == RtInit /\ [][RtNext]_vars

----------------------------------------------------------------------------
(* calculateReadingTime on a text of one language that grows: CJK          *)
(* characters only, or words of one letter with a space between them       *)

MaxCjkChars == 401

MaxWords == 251

GrowInit ==
    /\ fnIn = <<>>
    /\ fnOut = calculateReadingTime(<<>>)
    /\ fnPc \in {"cjk", "words"}
    /\ SyncIdle

AppendCjk ==
    /\ fnPc = "cjk"
    /\ Len(fnIn) < MaxCjkChars
    /\ fnIn' = Append(fnIn, 20013)
    /\ fnOut' = calculateReadingTime(fnIn')
    /\ UNCHANGED <<fnPc, syncVars>>

AppendWord ==
    /\ fnPc = "words"
    /\ Len(fnIn) < 2 * MaxWords
    /\ fnIn' = fnIn \o <<97, 32>>
    /\ fnOut' = calculateReadingTime(fnIn')
    /\ UNCHANGED <<fnPc, syncVars>>

GrowNext == AppendCjk \/ AppendWord

SpecGrow == GrowInit /\ [][GrowNext]_vars

----------------------------------------------------------------------------
(* One call of parseMarkdownFile *)

\* the metadata blocks: title absent, '' or given; date absent, '', a date
\* or no date; excerpt absent, '' or given
Titles == {"", "Run"}

DateStrings == {"", "2024-01-01", "soon"}

Excerpts == {<<>>, <<70, 101, 98>>}

MetadataBlocks ==
    {<<>>}
    \cup {[title |-> t] : t \in Titles}
    \cup {[date |-> d] : d \in DateStrings}
    \cup {[title |-> t, date |-> d] : t \in Titles, d \in DateStrings}
    \cup {[title |-> t, date |-> d, excerpt |-> e] :
            t \in Titles, d \in DateStrings, e \in Excerpts}

ParseInputs ==
    [path : Paths,
     file : [readable : BOOLEAN, wellFormed : BOOLEAN, data : MetadataBlocks,
             content : {Bodies[i] : i \in 1..Len(Bodies)}]]

ParseInit ==
    /\ fnIn \in ParseInputs
    /\ fnOut = <<>>
    /\ fnPc = "call"
    /\ SyncIdle

CallParseMarkdownFile ==
    /\ fnPc = "call"
    /\ fnOut' = parseMarkdownFile(fnIn.path, fnIn.file)
    /\ fnPc' = "return"
    /\ UNCHANGED <<fnIn, syncVars>>

ParseCallNext == CallParseMarkdownFile

SpecParse == ParseInit /\ [][ParseCallNext]_vars

----------------------------------------------------------------------------
(* The claims *)

Range(f) == {f[i] : i \in DOMAIN f}

\* a file that fails: unreadable, malformed metadata block, or no title or
\* no date (the key absent or left empty)
C1_Fails(f) ==
    \/ ~f.readable
    \/ ~f.wellFormed
    \/ "title" \notin DOMAIN f.data \/ f.data.title = ""
    \/ "date" \notin DOMAIN f.data \/ f.data.date = ""

\* the records of ps are, id for id, those of the listed files that do not fail
C1_IdOf == [p \in Paths |-> generatePostId(basename(p, <<>>))]

C1_OneRecordPerGoodFile(ps) ==
    LET idOf == C1_IdOf
        good == {i \in 1..Len(markdownFiles) : ~C1_Fails(dir[markdownFiles[i]])}
    IN  /\ Len(ps) = Cardinality(good)
        /\ \A p \in Range(markdownFiles) :
              Cardinality({i \in 1..Len(ps) : ps[i].id = idOf[p]})
              = Cardinality({i \in good : idOf[markdownFiles[i]] = idOf[p]})

\* C1: whatever files of the listing fail, the run leaves the loop only by
\* going to the write (it exits non-zero only from discovery or from the
\* write); at the write every listed file has been handled, a failing one by
\* one diagnostic and no record, the others by a record; a run whose write
\* succeeds exits 0 and its artifact holds exactly one record for each file
\* that did not fail.
C1_PerFileFailuresSkipped ==
    /\ pc \in {"start", "loop", "writing", "exited", "exited:glob", "exited:write"}
    /\ exitCode # 0 => pc \in {"exited:glob", "exited:write"}
    /\ pc = "exited:glob" => markdownFiles = <<>>
    /\ pc \in {"writing", "exited", "exited:write"} =>
          /\ idx = Len(markdownFiles) + 1
          /\ \A p \in Range(markdownFiles) :
                Cardinality({i \in 1..Len(log) : log[i].file = p})
                = IF C1_Fails(dir[p]) THEN 1 ELSE 0
          /\ C1_OneRecordPerGoodFile(posts)
    /\ pc = "exited" =>
          /\ exitCode = 0
          /\ artifact.kind = "complete"
          /\ artifact.generatedAt = run
          /\ artifact.blogPosts = posts

\* C1, witness: a finished run in which a file that failed was listed before
\* one that did not
C1_Witness ==
    /\ pc = "exited"
    /\ \E i, j \in 1..Len(markdownFiles) :
          /\ i < j
          /\ C1_Fails(dir[markdownFiles[i]])
          /\ ~C1_Fails(dir[markdownFiles[j]])
    /\ Len(artifact.blogPosts) >= 1

C2_Present(data, k) == k \in DOMAIN data /\ data[k] # ""

\* C2: parseMarkdownFile yields a record exactly when the file is readable,
\* its metadata block parses and title and date both have a value; otherwise
\* it yields none and prints one diagnostic, a warning for a missing field and
\* an error for a read or parse failure.
C2_RecordIffValid ==
    fnPc = "return" =>
        LET f == fnIn.file
            parsed == f.readable /\ f.wellFormed
            valid == parsed /\ C2_Present(f.data, "title") /\ C2_Present(f.data, "date")
        IN  /\ fnOut.ok <=> valid
            /\ ~valid => fnOut.diag = <<IF parsed THEN "warn" ELSE "error">>

\* C2, witness: a readable, well-formed file with a title and no date was
\* skipped with a warning
C2_Witness ==
    /\ fnPc = "return"
    /\ fnIn.file.readable /\ fnIn.file.wellFormed
    /\ C2_Present(fnIn.file.data, "title")
    /\ "date" \notin DOMAIN fnIn.file.data
    /\ ~fnOut.ok
    /\ fnOut.diag = <<"warn">>

\* C3: a run ends with a non-zero exit status exactly when the input root
\* was missing or unreadable during discovery or the artifact write failed.
C3_ExitStatus ==
    Exited => ((exitCode # 0) <=> (~rootOk \/ pc = "exited:write"))

\* C4: the artifact a reader sees is always the complete artifact the prior
\* run left or the complete artifact of the current run.
C4_ArtifactNeverPartial ==
    \/ artifact = prior.artifact
    \/ artifact.kind = "complete" /\ artifact.generatedAt = run

\* two runs in a row, both writing the artifact, listed the same files
C5_SameFilesTwice ==
    /\ pc = "exited"
    /\ prior.artifact.kind = "complete"
    /\ prior.artifact.generatedAt = run - 1
    /\ Range(prior.listing) = Range(markdownFiles)

C5_ParseableDates(ps) == \A i \in 1..Len(ps) : DateGetTime(ps[i].date) # NaN

C5_DistinctParseableDates(ps) ==
    /\ C5_ParseableDates(ps)
    /\ \A i, j \in 1..Len(ps) :
          i # j => DateGetTime(ps[i].date) # DateGetTime(ps[j].date)

\* C5 as stated: for the same files, the records of the artifact are in the
\* same order whatever the order of discovery, also with equal dates (the
\* dates being dates, as the data model has them).
C5_OrderIndependent ==
    (C5_SameFilesTwice /\ C5_ParseableDates(artifact.blogPosts))
        => artifact.blogPosts = prior.artifact.blogPosts

\* C5 as amended: for the same files, whose records have parseable and
\* pairwise different dates, the records of the artifact are in the same
\* order whatever the order of discovery.
C5_OrderIndependentDistinctDates ==
    (C5_SameFilesTwice /\ C5_DistinctParseableDates(artifact.blogPosts))
        => artifact.blogPosts = prior.artifact.blogPosts

\* C5, witness: two records with different dates, discovered in two orders
C5_Witness ==
    /\ C5_SameFilesTwice
    /\ C5_DistinctParseableDates(artifact.blogPosts)
    /\ Len(artifact.blogPosts) >= 2
    /\ prior.listing # markdownFiles
    /\ artifact.blogPosts[1].id = prior.artifact.blogPosts[1].id

\* C6: every record of the artifact has a date that parses.
C6_DatesParseable ==
    \A i \in 1..Len(artifact.blogPosts) :
        DateGetTime(artifact.blogPosts[i].date) # NaN

C7_IdChar(c) == c \in LowerAZ \/ c \in Digits \/ c \in CJK \/ c = 45

C7_HyphensTidy(id) ==
    /\ \A i \in 1..Len(id) : C7_IdChar(id[i])
    /\ id # <<>> => id[1] # 45 /\ id[Len(id)] # 45
    /\ \A i \in 1..(Len(id) - 1) : ~(id[i] = 45 /\ id[i + 1] = 45)

\* C7: the id of every filename is non-empty, made of a-z, 0-9, CJK
\* ideographs and hyphens, with no hyphen at either end and no two in a row.
C7_IdWellFormed ==
    fnPc = "return" => fnOut # <<>> /\ C7_HyphensTidy(fnOut)

\* C7, the part that holds: the characters and the hyphens of the id
C7_IdCharsAndHyphens ==
    fnPc = "return" => C7_HyphensTidy(fnOut)

\* C8: calculateReadingTime returns an integer >= 1 for every body.
C8_ReadingTimeAtLeastOne ==
    fnPc = "return" => fnOut \in Nat /\ fnOut >= 1

\* C8, witness: a body that is all markup, stripped to nothing, got 1
C8_Witness ==
    /\ fnPc = "return"
    /\ fnIn # <<>>
    /\ plainTextOf(fnIn) = <<>>
    /\ fnOut = 1

\* C9: as a text of CJK characters only, or of words only, grows, its
\* reading time never gets smaller.
C9_Monotone == [][fnOut' >= fnOut]_vars

\* C9, witness: a CJK text long enough for 3 minutes
C9_Witness ==
    /\ fnPc = "cjk"
    /\ chineseChars(fnIn) > 2 * CjkPerMinute
    /\ fnOut = 3

\* C10: getPostById(id) returns a record, whose id is id, exactly when some
\* record of the dataset has that id, and nothing otherwise.
C10_GetPostById ==
    query.fn = "getPostById" =>
        LET ps == artifact.blogPosts
            hit == \E i \in 1..Len(ps) : ps[i].id = query.arg
        IN  /\ query.result.found <=> hit
            /\ query.result.found =>
                  /\ query.result.post.id = query.arg
                  /\ query.result.post \in Range(ps)

\* C10, witness: a record was found that is not the first of the dataset
C10_Witness ==
    /\ query.fn = "getPostById"
    /\ query.result.found
    /\ artifact.blogPosts[1].id # query.arg

----------------------------------------------------------------------------
(* The other accessors of the artifact, sync-blog.ts 182-205, and the      *)
(* pages' calls of them (src/pages/blog/index.tsx 18, 26, 38, 325)         *)

\* the code units of the tags of the model
TagUnits(tag) ==
    CASE tag = "run" -> <<114, 117, 110>>
      [] tag = "Run" -> <<82, 117, 110>>
      [] tag = "ru" -> <<114, 117>>
      [] tag = "RUN" -> <<82, 85, 78>>
      [] OTHER -> <<>>

\* x < y of two strings, as Array.prototype.sort compares without a
\* comparator: code unit by code unit, a proper prefix first
StringLess(x, y) ==
    \E k \in 1..(Min(Len(x), Len(y)) + 1) :
        /\ \A i \in 1..(k - 1) : x[i] = y[i]
        /\ IF k > Len(x) THEN k <= Len(y)
           ELSE k <= Len(y) /\ x[k] < y[k]

\* tags.add(tag) for each tag in turn: a Set keeps the first of equal values,
\* in insertion order
RECURSIVE SetAddAll(_, _)
SetAddAll(tags, more) ==
    IF more = <<>> THEN tags
    ELSE SetAddAll(IF \E i \in 1..Len(tags) : tags[i] = Head(more)
                   THEN tags ELSE Append(tags, Head(more)),
                   Tail(more))

RECURSIVE InsertString(_, _)
InsertString(sorted, x) ==
    IF sorted = <<>> THEN <<x>>
    ELSE IF StringLess(TagUnits(x), TagUnits(Head(sorted))) THEN <<x>> \o sorted
    ELSE <<Head(sorted)>> \o InsertString(Tail(sorted), x)

\* .sort() of strings
RECURSIVE SortStrings(_)
SortStrings(ss) ==
    IF ss = <<>> THEN <<>>
    ELSE InsertString(SortStrings(SubSeq(ss, 1, Len(ss) - 1)), ss[Len(ss)])

\* mutant: Array.from(tags), the .sort() of line 195 left out
getAllTagsUnsorted(blogPosts) ==
    SetAddAll(<<>>, Flatten([i \in 1..Len(blogPosts) |-> blogPosts[i].tags]))

\* lines 190-196
getAllTags(blogPosts) ==
    SortStrings(SetAddAll(<<>>,
        Flatten([i \in 1..Len(blogPosts) |-> blogPosts[i].tags])))

\* post.tags.includes(tag)
TagsInclude(tags, tag) == \E i \in 1..Len(tags) : tags[i] = tag

\* mutant: the tags compared with their case folded
getPostsByTagFolded(blogPosts, tag) ==
    SelectSeq(blogPosts, LAMBDA post :
        \E i \in 1..Len(post.tags) :
            toLowerCase(TagUnits(post.tags[i])) = toLowerCase(TagUnits(tag)))

\* lines 182-184: blogPosts.filter(post => post.tags.includes(tag))
getPostsByTag(blogPosts, tag) ==
    SelectSeq(blogPosts, LAMBDA post : TagsInclude(post.tags, tag))

\* mutant: the sorted copy turned over, [...posts].sort(...).reverse()
sortPostsByDateReversed(ps) ==
    {[i \in 1..Len(r) |-> r[Len(r) + 1 - i]] : r \in SortByDateResults(ps)}

\* lines 203-205: [...posts].sort(...), the results the sort may give
sortPostsByDate(ps) == SortByDateResults(ps)

----------------------------------------------------------------------------
(* The pages over a dataset: an artifact a run has written, and the calls  *)
(* of its accessors                                                        *)

MaxPosts == 3

\* the files of the model that are valid and dated, and one whose tags
\* repeat
DataFiles ==
    {f \in Files : /\ f.readable /\ f.wellFormed /\ ~MissingRequired(f.data)
                   /\ DateGetTime(f.data.date) # NaN}
    \cup {FileOf([title |-> "Tie", date |-> "2024-01-01",
                  tags |-> <<"run", "ru", "run">>], Bodies[1])}

\* the records parseMarkdownFile makes of them
DataPosts == {parseMarkdownFile(p, f).post : p \in Paths, f \in DataFiles}

\* the collections of at most n records, as line 240 leaves them
Datasets(n) == UNION {SortByDateResults(ps) : ps \in SeqsUpTo(DataPosts, n)}

\* the tags asked for: tags of the records, one in another case, a part of
\* one, and ''
QueryTags == {"run", "Run", "RUN", "ru", ""}

DataInit ==
    /\ FnIdle
    /\ dir = <<>>
    /\ rootOk = TRUE
    /\ pc = "exited"
    /\ markdownFiles = <<>>
    /\ idx = 1
    /\ posts \in Datasets(MaxPosts)
    /\ log = <<>>
    /\ exitCode = 0
    /\ artifact = generateBlogDataContent(posts, 1)
    /\ prior = [artifact |-> NoArtifact, listing |-> <<>>]
    /\ run = MaxRuns
    /\ query = NoQuery

\* index.tsx line 18
CallGetAllTags ==
    /\ Exited
    /\ artifact.kind = "complete"
    /\ query' = [fn |-> "getAllTags", result |-> getAllTags(artifact.blogPosts)]
    /\ UNCHANGED <<fnVars, dir, rootOk, pc, markdownFiles, idx, posts, log,
                   exitCode, artifact, prior, run>>

\* index.tsx line 26
CallGetPostsByTag ==
    /\ Exited
    /\ artifact.kind = "complete"
    /\ \E tag \in QueryTags :
          query' = [fn |-> "getPostsByTag", arg |-> tag,
                    result |-> getPostsByTag(artifact.blogPosts, tag)]
    /\ UNCHANGED <<fnVars, dir, rootOk, pc, markdownFiles, idx, posts, log,
                   exitCode, artifact, prior, run>>

\* index.tsx lines 38 and 325, on the records of the dataset in any order
CallSortPostsByDate ==
    /\ Exited
    /\ artifact.kind = "complete"
    /\ \E f \in Orderings(Len(artifact.blogPosts)) :
          LET arg == [i \in 1..Len(artifact.blogPosts) |-> artifact.blogPosts[f[i]]]
          IN  \E r \in sortPostsByDate(arg) :
                 query' = [fn |-> "sortPostsByDate", arg |-> arg, result |-> r]
    /\ UNCHANGED <<fnVars, dir, rootOk, pc, markdownFiles, idx, posts, log,
                   exitCode, artifact, prior, run>>

\* sortPostsByDate on what sortPostsByDate returned
CallSortPostsByDateAgain ==
    /\ query.fn = "sortPostsByDate"
    /\ \E r \in sortPostsByDate(query.result) :
          query' = [fn |-> "sortPostsByDate twice", arg |-> query.arg,
                    once |-> query.result, result |-> r]
    /\ UNCHANGED <<fnVars, dir, rootOk, pc, markdownFiles, idx, posts, log,
                   exitCode, artifact, prior, run>>

\* post[field] as JavaScript reads it: <<value>>, or <<>> for undefined
\* when the record has no such property
PropertyOf(post, field) ==
    IF field \in DOMAIN post THEN <<post[field]>> ELSE <<>>

\* the properties the list page reads of a record it shows (index.tsx
\* 93-124, 197-224) and the detail page of the record it shows (358-459)
\* and of the related ones (511-525)
BlogIndexReads == {"id", "title", "date", "excerpt", "tags", "featured", "readTime"}

BlogPostReads ==
    {"id", "title", "date", "excerpt", "content", "tags", "featured", "readTime"}

RelatedPostReads == {"id", "title", "date", "excerpt", "readTime"}

RECURSIVE SumOf(_)
SumOf(ns) == IF ns = <<>> THEN 0 ELSE Head(ns) + SumOf(Tail(ns))

\* index.tsx 280: Math.round(blogPosts.reduce((sum, post) => sum +
\* post.readTime, 0) / blogPosts.length), <<>> standing for NaN: 0 / 0, or
\* a sum that took in undefined
averageReadTime(blogPosts) ==
    LET times == [i \in 1..Len(blogPosts) |-> PropertyOf(blogPosts[i], "readTime")]
    IN  IF blogPosts = <<>> \/ \E i \in 1..Len(times) : times[i] = <<>> THEN <<>>
        ELSE <<(2 * SumOf([i \in 1..Len(times) |-> times[i][1]]) + Len(times))
                   \div (2 * Len(times))>>

\* the list page with no tag chosen and nothing searched for: a card for
\* every record of sortPostsByDate(blogPosts), and the statistics
RenderBlogIndex ==
    /\ Exited
    /\ artifact.kind = "complete"
    /\ \E filteredPosts \in sortPostsByDate(artifact.blogPosts) :
          query' = [fn |-> "BlogIndex",
                    posts |-> filteredPosts,
                    cards |-> [i \in 1..Len(filteredPosts) |->
                                  [f \in BlogIndexReads |->
                                      PropertyOf(filteredPosts[i], f)]],
                    average |-> averageReadTime(artifact.blogPosts)]
    /\ UNCHANGED <<fnVars, dir, rootOk, pc, markdownFiles, idx, posts, log,
                   exitCode, artifact, prior, run>>

\* the detail page of /blog/:id (index.tsx 305-330, 358-525): redirected
\* when getPostById finds nothing, else the record and up to three others
\* that share a tag with it
RenderBlogPost ==
    /\ Exited
    /\ artifact.kind = "complete"
    /\ \E id \in QueryIds :
          LET found == getPostById(artifact.blogPosts, id)
              post == found.post
              relatedPosts ==
                  Take(SelectSeq(artifact.blogPosts, LAMBDA p :
                          /\ p.id # post.id
                          /\ \E k \in 1..Len(p.tags) : TagsInclude(post.tags, p.tags[k])),
                       3)
          IN  query' =
                IF ~found.found THEN [fn |-> "BlogPost", redirected |-> TRUE]
                ELSE [fn |-> "BlogPost", redirected |-> FALSE,
                      post |-> post,
                      shown |-> [f \in BlogPostReads |-> PropertyOf(post, f)],
                      related |-> [i \in 1..Len(relatedPosts) |->
                                      [f \in RelatedPostReads |->
                                          PropertyOf(relatedPosts[i], f)]]]
    /\ UNCHANGED <<fnVars, dir, rootOk, pc, markdownFiles, idx, posts, log,
                   exitCode, artifact, prior, run>>

DataNext ==
    \/ CallGetPostById
    \/ CallGetAllTags
    \/ CallGetPostsByTag
    \/ CallSortPostsByDate
    \/ CallSortPostsByDateAgain
    \/ RenderBlogIndex
    \/ RenderBlogPost

SpecData == DataInit /\ [][DataNext]_vars

\* C11: getAllTags() returns the tags that occur in some record and no
\* others, each once, in ascending order of their code units; for an empty
\* dataset it returns the empty sequence.
C11_GetAllTags ==
    query.fn = "getAllTags" =>
        LET ps == artifact.blogPosts
            r == query.result
        IN  /\ Range(r) = UNION {Range(ps[i].tags) : i \in 1..Len(ps)}
            /\ \A i, j \in 1..Len(r) :
                  i < j => StringLess(TagUnits(r[i]), TagUnits(r[j]))
            /\ ps = <<>> => r = <<>>

\* C11, witness: three tags, first met in another order than the sorted
\* one and more than once, come back sorted
C11_Witness ==
    /\ query.fn = "getAllTags"
    /\ query.result = <<"Run", "ru", "run">>
    /\ \E i \in 1..Len(artifact.blogPosts) :
          artifact.blogPosts[i].tags = <<"run", "ru", "run">>

\* the dates of ps never go up, as far as they are dates
C12_SortedDescending(ps) ==
    \A i, j \in 1..Len(ps) : i < j => CompareDesc(ps[i], ps[j]) <= 0

\* C12: sortPostsByDate(sortPostsByDate(s)) is sortPostsByDate(s), element
\* for element, and sortPostsByDate of a sequence that is sorted by date
\* descending is that sequence, records of equal date in the order they had;
\* for every sequence s of records that the comparator of line 204 orders
\* consistently (every sequence of records with dates).
C12_SortIdempotent ==
    /\ (query.fn = "sortPostsByDate twice" /\ ConsistentComparator(query.arg))
          => query.result = query.once
    /\ (/\ query.fn = "sortPostsByDate"
        /\ ConsistentComparator(query.arg)
        /\ C12_SortedDescending(query.arg))
          => query.result = query.arg

\* C12, witness: three records, two of them of one date and not in date
\* order at first, sorted twice
C12_Witness ==
    /\ query.fn = "sortPostsByDate twice"
    /\ Len(query.arg) = 3
    /\ C5_ParseableDates(query.arg)
    /\ ~C12_SortedDescending(query.arg)
    /\ \E i, j \in 1..3 :
          /\ i # j
          /\ query.once[i] # query.once[j]
          /\ query.once[i].date = query.once[j].date
    /\ query.result = query.once

\* C12, witness: the collection of the artifact, records of equal date in
\* it, comes back as it is
C12_WitnessArtifact ==
    /\ query.fn = "sortPostsByDate"
    /\ query.arg = artifact.blogPosts
    /\ Len(query.arg) = 3
    /\ query.arg[1] # query.arg[2]
    /\ query.arg[1].date = query.arg[2].date
    /\ C5_ParseableDates(query.arg)
    /\ query.result = query.arg

\* C13: getPostsByTag(tag) returns the records whose tags hold a tag equal
\* to tag, letter for letter and case for case, and no others, in the order
\* they have in the collection, and the collection stays as it is.
C13_GetPostsByTag ==
    [][query'.fn = "getPostsByTag" =>
          LET ps == artifact.blogPosts
              r == query'.result
              hits == {i \in 1..Len(ps) :
                          \E k \in 1..Len(ps[i].tags) :
                              TagUnits(ps[i].tags[k]) = TagUnits(query'.arg)}
          IN  /\ Len(r) = Cardinality(hits)
              /\ \A n \in 1..Len(r) :
                    \E i \in hits :
                        /\ r[n] = ps[i]
                        /\ Cardinality({j \in hits : j <= i}) = n
              /\ artifact' = artifact]_vars

\* C13, witness: asked for 'ru', the second and third of three records
\* come back, the first having the tag 'run' but not 'ru'
C13_Witness ==
    /\ query.fn = "getPostsByTag"
    /\ query.arg = "ru"
    /\ Len(artifact.blogPosts) = 3
    /\ artifact.blogPosts[1].tags = <<"run", "Run">>
    /\ query.result = <<artifact.blogPosts[2], artifact.blogPosts[3]>>
    /\ artifact.blogPosts[2] # artifact.blogPosts[3]

----------------------------------------------------------------------------
(* One call of parseMarkdownFile on a body about as long as the excerpt    *)
(* budget                                                                  *)

MaxProse == 152

\* n times the code unit c
Repeat(c, n) == [i \in 1..n |-> c]

\* the prose a body is written around: n letters, or n CJK characters, or
\* words of three letters up to n code units
Prose(n) ==
    {Repeat(97, n), Repeat(20013, n),
     [i \in 1..n |-> IF i % 4 = 0 THEN 32 ELSE 98]}

\* the bodies written around the prose t: t alone, t between blank lines,
\* t under a heading marker, t in emphasis, t before a code span and, on
\* the next line, a fenced block
BodiesAround(t) ==
    {t,
     <<10, 32>> \o t \o <<32, 10>>,
     <<35, 35, 32>> \o t,
     <<42, 42>> \o t \o <<42, 42>>,
     t \o <<96, 120, 96, 10>> \o Fence \o <<10, 120, 10>> \o Fence}

\* title and date given; excerpt absent, '' or 'Feb'
ExcerptBlocks ==
    {[title |-> "Run", date |-> "2024-01-01"]}
    \cup {[title |-> "Run", date |-> "2024-01-01", excerpt |-> e] : e \in Excerpts}

\* the calls: prose is kept beside the file to say what the body was written
\* around
ExcerptInputs(n) ==
    UNION {UNION {[path : {<<98, 46, 109, 100>>},
                   file : {FileOf(d, b) : d \in ExcerptBlocks, b \in BodiesAround(t)},
                   prose : {t}] : t \in Prose(k)} : k \in 0..n}

ExcerptInit ==
    /\ fnIn \in ExcerptInputs(MaxProse)
    /\ fnOut = <<>>
    /\ fnPc = "call"
    /\ SyncIdle

ExcerptNext == CallParseMarkdownFile

SpecExcerpt == ExcerptInit /\ [][ExcerptNext]_vars

\* C14: the excerpt of the record is the excerpt of the metadata block,
\* unchanged, when the block gives one (a value, not ''); otherwise it is
\* the first 150 code units of the body's prose, trimmed, followed by '...'
\* exactly when that prose is longer than 150.
C14_Excerpt ==
    fnPc = "return" =>
        LET data == fnIn.file.data
            t == fnIn.prose
            \* a word's last letter once the prose ends on a blank
            text == IF t # <<>> /\ t[Len(t)] = 32 THEN SubSeq(t, 1, Len(t) - 1) ELSE t
        IN  /\ fnOut.ok
            /\ IF "excerpt" \in DOMAIN data /\ data.excerpt # <<>>
               THEN fnOut.post.excerpt = data.excerpt
               ELSE IF Len(text) > 150
               THEN /\ Len(fnOut.post.excerpt) = 153
                    /\ SubSeq(fnOut.post.excerpt, 1, 150) = SubSeq(text, 1, 150)
                    /\ SubSeq(fnOut.post.excerpt, 151, 153) = <<46, 46, 46>>
               ELSE fnOut.post.excerpt = text

\* C14, witness: a body of exactly 150 CJK characters under a heading
\* marker, no excerpt given: the 150 characters and no marker
C14_Witness ==
    /\ fnPc = "return"
    /\ "excerpt" \notin DOMAIN fnIn.file.data
    /\ fnIn.file.content = <<35, 35, 32>> \o Repeat(20013, 150)
    /\ fnOut.post.excerpt = Repeat(20013, 150)

\* C14, witness: 151 letters in emphasis, the marker is there
C14_WitnessEllipsis ==
    /\ fnPc = "return"
    /\ fnIn.file.data.title = "Run" /\ "excerpt" \notin DOMAIN fnIn.file.data
    /\ fnIn.file.content = <<42, 42>> \o Repeat(97, 151) \o <<42, 42>>
    /\ fnOut.post.excerpt = Repeat(97, 150) \o <<46, 46, 46>>

\* two runs in a row wrote the artifact, discovery listing the same files in
\* the same order
C15_SameListingTwice ==
    /\ pc = "exited"
    /\ prior.artifact.kind = "complete"
    /\ prior.artifact.generatedAt = run - 1
    /\ prior.listing = markdownFiles

\* the records of the files of the directory that are valid, in the order
\* of the listing
C15_RecordsOf(listing) ==
    LET rs == [i \in 1..Len(listing) |-> parseMarkdownFile(listing[i], dir[listing[i]])]
        ok == SelectSeq(rs, LAMBDA r : r.ok)
    IN  [i \in 1..Len(ok) |-> ok[i].post]

\* C15 as stated: two runs in a row over an unchanged directory leave the
\* same artifact (discovery listing the files in the same order both times,
\* and every date being a date).
C15_SameArtifactTwice ==
    (C15_SameListingTwice /\ C5_ParseableDates(artifact.blogPosts))
        => artifact = prior.artifact

\* C15 as amended: two runs in a row over an unchanged directory, listed in
\* the same order, write the same records, in the same order where the
\* sort is given dates it can order, into artifacts that differ in their
\* "Generated at" line; and the artifact of a run that ends well is made of
\* the time of the run and the sorted records of the files now in the
\* directory, with nothing of the artifact that was there before.
C15_SameRecordsTwice ==
    /\ C15_SameListingTwice =>
          /\ Len(artifact.blogPosts) = Len(prior.artifact.blogPosts)
          /\ Range(artifact.blogPosts) = Range(prior.artifact.blogPosts)
          /\ ConsistentComparator(artifact.blogPosts)
                => artifact.blogPosts = prior.artifact.blogPosts
          /\ artifact.generatedAt # prior.artifact.generatedAt
    /\ pc = "exited" =>
          /\ artifact.kind = "complete"
          /\ artifact.generatedAt = run
          /\ artifact.blogPosts \in SortByDateResults(C15_RecordsOf(markdownFiles))

\* C15, witness: the second run wrote the same three records as the first,
\* two of them of one date, and the two artifacts differ
C15_Witness ==
    /\ C15_SameListingTwice
    /\ Len(artifact.blogPosts) = 3
    /\ C5_ParseableDates(artifact.blogPosts)
    /\ ~C5_DistinctParseableDates(artifact.blogPosts)
    /\ artifact.blogPosts = prior.artifact.blogPosts
    /\ artifact # prior.artifact

----------------------------------------------------------------------------
(* One call of calculateReadingTime on a text of both languages *)

MaxMixCjk == 201

MaxMixWords == 251

\* the counts tried: every 25th up to max, and the one after it
MixCounts(max) == {n \in 0..max : n % 25 \in {0, 1}}

\* w words of two letters, a blank after each
MixWords(w) == [i \in 1..(3 * w) |-> IF i % 3 = 0 THEN 32 ELSE 97 + (i % 3)]

\* a text of c CJK characters and w words: the characters first, or the
\* words first under a heading marker, or a character after every word as
\* long as there are both
MixTexts(c, w) ==
    {Repeat(20013, c) \o <<10>> \o MixWords(w),
     <<35, 32>> \o MixWords(w) \o <<10>> \o Repeat(20013, c),
     [i \in 1..(5 * Min(c, w)) |-> <<98, 99, 32, 20013, 32>>[((i - 1) % 5) + 1]]
         \o Repeat(20013, c - Min(c, w)) \o <<32>> \o MixWords(w - Min(c, w))}

MixInputs(maxCjk, maxWords) ==
    UNION {[cjkCount : {c}, wordCount : {w}, content : MixTexts(c, w)] :
              c \in MixCounts(maxCjk), w \in MixCounts(maxWords)}

MixInit ==
    /\ fnIn \in MixInputs(MaxMixCjk, MaxMixWords)
    /\ fnOut = 0
    /\ fnPc = "call"
    /\ SyncIdle

CallCalculateReadingTimeOfMix ==
    /\ fnPc = "call"
    /\ fnOut' = calculateReadingTime(fnIn.content)
    /\ fnPc' = "return"
    /\ UNCHANGED <<fnIn, syncVars>>

MixNext == CallCalculateReadingTimeOfMix

SpecMix == MixInit /\ [][MixNext]_vars

\* C16: for a text of cjkCount CJK characters and wordCount words,
\* calculateReadingTime returns max(1, ceil((5 * cjkCount + 4 * wordCount) /
\* 1000)), the ceiling of the sum of cjkCount / 200 and wordCount / 250,
\* which is never more than the two terms rounded up one by one and, where
\* the two differ, is not their sum.
C16_CeilOfSum ==
    fnPc = "return" =>
        LET n == 5 * fnIn.cjkCount + 4 * fnIn.wordCount
            ceilOfSum == IF n % 1000 = 0 THEN n \div 1000 ELSE n \div 1000 + 1
            apart == (fnIn.cjkCount + 199) \div 200 + (fnIn.wordCount + 249) \div 250
        IN  /\ fnOut = IF ceilOfSum < 1 THEN 1 ELSE ceilOfSum
            /\ fnOut <= IF apart < 1 THEN 1 ELSE apart

\* C16, witness: 100 CJK characters and 125 words are one minute, where the
\* terms rounded up one by one would give two
C16_Witness ==
    /\ fnPc = "return"
    /\ fnIn.cjkCount = 100
    /\ fnIn.wordCount = 125
    /\ fnOut = 1

----------------------------------------------------------------------------
(* syncBlog over a directory whose file names run into one another *)

\* 'b.md', 'n/b.md', 'n/B.md': one file name in two directories, and two
\* file names in one directory, that give the id 'b'
CollidePaths == {<<98, 46, 109, 100>>,
                 <<110, 47, 98, 46, 109, 100>>,
                 <<110, 47, 66, 46, 109, 100>>}

\* the files that are valid and dated, and the one without a date
CollideFiles ==
    {f \in Files : /\ f.readable /\ f.wellFormed /\ HasKey(f.data, "title")
                   /\ (HasKey(f.data, "date") => DateGetTime(f.data.date) # NaN)}

CollideDirectories == UNION {[ps -> CollideFiles] : ps \in SUBSET CollidePaths}

CollideInit ==
    /\ FnIdle
    /\ dir \in CollideDirectories
    /\ rootOk \in BOOLEAN
    /\ pc = "start"
    /\ markdownFiles = <<>>
    /\ idx = 1
    /\ posts = <<>>
    /\ log = <<>>
    /\ exitCode = 0
    /\ artifact = NoArtifact
    /\ prior = [artifact |-> NoArtifact, listing |-> <<>>]
    /\ run = 1
    /\ query = NoQuery

SpecCollide == CollideInit /\ [][Next]_vars

C17_IdOf == [p \in CollidePaths |-> generatePostId(basename(p, <<>>))]

\* p and q are two files the run has listed, both valid, with one id
C17_Collide(p, q) ==
    /\ p # q
    /\ p \in Range(markdownFiles) /\ q \in Range(markdownFiles)
    /\ ~C1_Fails(dir[p]) /\ ~C1_Fails(dir[q])
    /\ C17_IdOf[p] = C17_IdOf[q]

\* C17: when two valid files of the directory derive one id, nothing is
\* logged about either, the run (its write succeeding) exits 0 with one
\* record of that id in the artifact for each of the files, and
\* getPostById of that id returns the first of them in the collection,
\* another record of that id standing behind it.
C17_SilentCollision ==
    \A p, q \in DOMAIN dir :
        C17_Collide(p, q) =>
            LET id == C17_IdOf[p]
                ps == artifact.blogPosts
                hits == {i \in 1..Len(ps) : ps[i].id = id}
                first == CHOOSE i \in hits : \A j \in hits : i <= j
            IN  /\ \A i \in 1..Len(log) : log[i].file \notin {p, q}
                /\ pc = "exited" =>
                      /\ exitCode = 0
                      /\ Cardinality(hits) =
                            Cardinality({f \in Range(markdownFiles) :
                                ~C1_Fails(dir[f]) /\ C17_IdOf[f] = id})
                      /\ \E i, j \in hits :
                            /\ i # j
                            /\ ps[i] = BlogPost(p, dir[p].data, dir[p].content)
                            /\ ps[j] = BlogPost(q, dir[q].data, dir[q].content)
                      /\ (query.fn = "getPostById" /\ query.arg = id) =>
                            /\ query.result.found
                            /\ query.result.post = ps[first]
                            /\ \E j \in hits : j > first

\* C17, witness: two of the files, of different dates, are both in the
\* artifact as 'b', after a file that was skipped with a warning; asked for
\* 'b', getPostById returns the later-dated one, which is the first
C17_Witness ==
    /\ pc = "exited"
    /\ exitCode = 0
    /\ Len(log) = 1
    /\ Len(artifact.blogPosts) = 2
    /\ artifact.blogPosts[1].id = <<98>> /\ artifact.blogPosts[2].id = <<98>>
    /\ artifact.blogPosts[1].date = "2024-02-01"
    /\ artifact.blogPosts[2].date = "2024-01-01"
    /\ query.fn = "getPostById" /\ query.arg = <<98>>
    /\ query.result.found
    /\ query.result.post = artifact.blogPosts[1]

\* the record shape the artifact exports, sync-blog.ts 144-153
C18_RecordShape ==
    {"id", "title", "date", "excerpt", "content", "tags", "readingTime", "featured"}

\* C18: every property the list page and the detail page read of a record
\* of the artifact is a field of the exported record shape and so has a
\* value, and the reading time they show, and average over the records
\* there are, is the record's readingTime.
C18_PagesReadRecordFields ==
    /\ query.fn = "BlogIndex" =>
          /\ \A i \in 1..Len(query.cards) :
                /\ \A f \in BlogIndexReads :
                      f \in C18_RecordShape /\ query.cards[i][f] # <<>>
                /\ query.cards[i]["readTime"] = <<query.posts[i].readingTime>>
          /\ query.posts # <<>> => query.average # <<>>
    /\ (query.fn = "BlogPost" /\ ~query.redirected) =>
          /\ \A f \in BlogPostReads :
                f \in C18_RecordShape /\ query.shown[f] # <<>>
          /\ query.shown["readTime"] = <<query.post.readingTime>>
          /\ \A i \in 1..Len(query.related) :
                \A f \in RelatedPostReads :
                    f \in C18_RecordShape /\ query.related[i][f] # <<>>

====
